---- MODULE Spec2Model ----
(***************************************************************************)
(* A model of chess.c: the board, the pseudo-legal move generator, the     *)
(* legality filter, the check oracle, the material evaluator, minimax with *)
(* alpha-beta pruning, the root move selector and the turn loop of main.   *)
(***************************************************************************)
EXTENDS Integers, Sequences, FiniteSets, TLC

(***************************************************************************)
(* Program constants.                                                      *)
(***************************************************************************)
BOARD_SIZE == 8
MAX_MOVES == 256
INT_MAX == 2147483647
INT_MIN == -INT_MAX - 1
MateMagnitude == 1000000

\* C integer division by a positive b truncates toward zero.
CDiv(a, b) == IF a >= 0 THEN a \div b ELSE -((-(a + b)) \div b) - 1

Idx == 0 .. (BOARD_SIZE - 1)
WhitePieces == {"P", "N", "B", "R", "Q", "K"}
BlackPieces == {"p", "n", "b", "r", "q", "k"}
Empty == "."
NoPromotion == ""

\* toupper / tolower on the characters a cell or a promotion field can hold.
toupper(p) ==
    CASE p = "p" -> "P" [] p = "n" -> "N" [] p = "b" -> "B"
      [] p = "r" -> "R" [] p = "q" -> "Q" [] p = "k" -> "K"
      [] OTHER -> p

tolower(p) ==
    CASE p = "P" -> "p" [] p = "N" -> "n" [] p = "B" -> "b"
      [] p = "R" -> "r" [] p = "Q" -> "q" [] p = "K" -> "k"
      [] OTHER -> p

piece_value(p) ==
    CASE toupper(p) = "P" -> 100
      [] toupper(p) = "N" -> 320
      [] toupper(p) = "B" -> 330
      [] toupper(p) = "R" -> 500
      [] toupper(p) = "Q" -> 900
      [] toupper(p) = "K" -> 20000
      [] OTHER -> 0

is_white(p) == p \in WhitePieces
is_black(p) == p \in BlackPieces

same_color(a, b) ==
    IF a = Empty \/ b = Empty THEN FALSE
    ELSE (is_white(a) /\ is_white(b)) \/ (is_black(a) /\ is_black(b))

\* A board from its eight rows, rank 8 first; a row is a sequence of 8 cells.
BoardOf(rows) == [r \in Idx |-> [f \in Idx |-> rows[r + 1][f + 1]]]

EmptyRow == <<".", ".", ".", ".", ".", ".", ".", ".">>

init_board ==
    BoardOf(<< <<"r", "n", "b", "q", "k", "b", "n", "r">>,
               <<"p", "p", "p", "p", "p", "p", "p", "p">>,
               EmptyRow, EmptyRow, EmptyRow, EmptyRow,
               <<"P", "P", "P", "P", "P", "P", "P", "P">>,
               <<"R", "N", "B", "Q", "K", "B", "N", "R">> >>)

in_bounds(r, f) == r >= 0 /\ r < 8 /\ f >= 0 /\ f < 8

Move(r1, f1, r2, f2, pr) ==
    [r1 |-> r1, f1 |-> f1, r2 |-> r2, f2 |-> f2, promotion |-> pr]

\* out[count++] = m, guarded by count < max_out.
Push(out, m, max_out) == IF Len(out) < max_out THEN Append(out, m) ELSE out

Range(seq) == {seq[i] : i \in 1 .. Len(seq)}

(***************************************************************************)
(* generate_piece_moves: the pseudo-legal moves of the piece on (r, f), in *)
(* the order the code writes them, truncated at max_out.                   *)
(***************************************************************************)
PawnMoves(bd, r, f, max_out) ==
    LET p == bd[r][f]
        pawn_step == IF is_white(p) THEN -1 ELSE 1
        r1 == r + pawn_step
        start_rank == IF is_white(p) THEN 6 ELSE 1
        r2 == r + 2 * pawn_step
        adv1 == IF in_bounds(r1, f) /\ bd[r1][f] = Empty
                THEN Push(<<>>, Move(r, f, r1, f, NoPromotion), max_out)
                ELSE <<>>
        adv2 == IF in_bounds(r1, f) /\ bd[r1][f] = Empty
                   /\ r = start_rank /\ in_bounds(r2, f) /\ bd[r2][f] = Empty
                THEN Push(adv1, Move(r, f, r2, f, NoPromotion), max_out)
                ELSE adv1
        Cap(out, df) ==
            IF in_bounds(r1, f + df) /\ bd[r1][f + df] # Empty
               /\ ~same_color(p, bd[r1][f + df])
            THEN Push(out, Move(r, f, r1, f + df, NoPromotion), max_out)
            ELSE out
    IN  Cap(Cap(adv2, -1), 1)

KnightDr == <<-2, -2, -1, -1, 1, 1, 2, 2>>
\* df[] of the knight with its second entry -1 instead of 1.
KnightDf_second_negated == <<-1, -1, -2, 2, -2, 2, -1, 1>>
KnightDf == <<-1, 1, -2, 2, -2, 2, -1, 1>>
\* The king's 8 offsets in the order of the nested dr, df loops.
KingDr == <<-1, -1, -1, 0, 0, 1, 1, 1>>
KingDf == <<-1, 0, 1, -1, 1, -1, 0, 1>>

\* The first n entries of seq, all of them when it has no more than n.
Truncate(seq, n) == IF Len(seq) > n THEN SubSeq(seq, 1, n) ELSE seq

\* The loop over the 8 offsets of a knight or a king: pass k writes the move
\* to (r + drs[k], f + dfs[k]) when that cell is on the board and is empty or
\* holds a piece of the other colour.
StepMoves(bd, r, f, drs, dfs) ==
    SelectSeq([k \in 1 .. Len(drs) |-> Move(r, f, r + drs[k], f + dfs[k], NoPromotion)],
              LAMBDA m : /\ in_bounds(m.r2, m.f2)
                         /\ (bd[m.r2][m.f2] = Empty \/ ~same_color(bd[r][f], bd[m.r2][m.f2])))

rook_dirs == << <<1, 0>>, <<-1, 0>>, <<0, 1>>, <<0, -1>> >>
\* bishop_dirs with the direction {1,-1} missing, {1,1} standing twice.
bishop_dirs_one_missing == << <<1, 1>>, <<1, 1>>, <<-1, 1>>, <<-1, -1>> >>
bishop_dirs == << <<1, 1>>, <<1, -1>>, <<-1, 1>>, <<-1, -1>> >>

\* The number of passes of the while loop of one ray that find an empty
\* cell, counted from pass k: the cells it walks before it leaves the board
\* or meets a piece.
RECURSIVE RayEmpty(_, _, _, _, _, _)
RayEmpty(bd, r, f, dr, df, k) ==
    IF in_bounds(r + k * dr, f + k * df) /\ bd[r + k * dr][f + k * df] = Empty
    THEN RayEmpty(bd, r, f, dr, df, k + 1)
    ELSE k - 1

\* What the while loop writes after n empty cells: a move to each of them,
\* nearest first, then a move to cell n + 1 when that cell is on the board
\* and holds a piece of the other colour.
RayMoves(bd, r, f, dr, df, n) ==
    [k \in 1 .. n |-> Move(r, f, r + k * dr, f + k * df, NoPromotion)]
        \o (IF in_bounds(r + (n + 1) * dr, f + (n + 1) * df)
               /\ ~same_color(bd[r][f], bd[r + (n + 1) * dr][f + (n + 1) * df])
            THEN <<Move(r, f, r + (n + 1) * dr, f + (n + 1) * df, NoPromotion)>>
            ELSE <<>>)

\* The ray in direction d of dirs.
RayFrom(bd, r, f, d) == RayMoves(bd, r, f, d[1], d[2], RayEmpty(bd, r, f, d[1], d[2], 1))

\* The for loop over the four directions of dirs.
Slide(bd, r, f, dirs) ==
    (RayFrom(bd, r, f, dirs[1]) \o RayFrom(bd, r, f, dirs[2]))
        \o (RayFrom(bd, r, f, dirs[3]) \o RayFrom(bd, r, f, dirs[4]))

\* Every write to out[] is guarded by count < max_out, so out[] holds the
\* first max_out of the moves the loops would write.
generate_piece_moves(bd, r, f, max_out, white_turn) ==
    LET p == bd[r][f]
        u == toupper(p)
    IN  IF p = Empty THEN <<>>
        ELSE IF u = "P" THEN PawnMoves(bd, r, f, max_out)
        ELSE IF u = "N" THEN Truncate(StepMoves(bd, r, f, KnightDr, KnightDf), max_out)
        ELSE IF u = "K" THEN Truncate(StepMoves(bd, r, f, KingDr, KingDf), max_out)
        ELSE Truncate((IF u = "R" \/ u = "Q" THEN Slide(bd, r, f, rook_dirs) ELSE <<>>)
                          \o (IF u = "B" \/ u = "Q" THEN Slide(bd, r, f, bishop_dirs) ELSE <<>>),
                      max_out)

(***************************************************************************)
(* generate_legal_moves: the pseudo-legal moves of every piece of the side *)
(* to move, each kept only if the mover's king is not attacked afterwards. *)
(***************************************************************************)
\* The moves one cell contributes to all[]: none unless it holds a piece of
\* the side to move.
CellMoves(bd, white_turn, r, f) ==
    LET p == bd[r][f]
    IN  IF p = Empty \/ (white_turn /\ ~is_white(p)) \/ (~white_turn /\ ~is_black(p))
        THEN <<>>
        ELSE generate_piece_moves(bd, r, f, MAX_MOVES, white_turn)

\* The moves the cells of row r contribute, in the order of the f loop.
RowMoves(bd, white_turn, r) ==
    ((CellMoves(bd, white_turn, r, 0) \o CellMoves(bd, white_turn, r, 1))
        \o (CellMoves(bd, white_turn, r, 2) \o CellMoves(bd, white_turn, r, 3)))
    \o ((CellMoves(bd, white_turn, r, 4) \o CellMoves(bd, white_turn, r, 5))
        \o (CellMoves(bd, white_turn, r, 6) \o CellMoves(bd, white_turn, r, 7)))

\* The nested r, f loops that fill all[]: every call writes at most
\* MAX_MOVES - alln moves behind the alln already there, so all[] is the
\* first MAX_MOVES moves of the cells' moves in scan order.
PseudoScan(bd, white_turn) ==
    Truncate(((RowMoves(bd, white_turn, 0) \o RowMoves(bd, white_turn, 1))
                 \o (RowMoves(bd, white_turn, 2) \o RowMoves(bd, white_turn, 3)))
             \o ((RowMoves(bd, white_turn, 4) \o RowMoves(bd, white_turn, 5))
                 \o (RowMoves(bd, white_turn, 6) \o RowMoves(bd, white_turn, 7))),
             MAX_MOVES)

\* The scratch board tmp of the filter: the move applied with the default queen.
FilterApply(bd, m) ==
    LET mover == bd[m.r1][m.f1]
        tmp1 == [bd EXCEPT ![m.r1][m.f1] = Empty]
    IN  IF toupper(mover) = "P" /\ (m.r2 = 0 \/ m.r2 = 7)
        THEN [tmp1 EXCEPT ![m.r2][m.f2] = IF is_white(mover) THEN "Q" ELSE "q"]
        ELSE [tmp1 EXCEPT ![m.r2][m.f2] = mover]

\* The king search loop: (kr, kf) is the last cell in scan order holding
\* kingChar, or (-1, -1) when there is none.
FindKing(bd, kingChar) ==
    LET ks == {k \in 0 .. 63 : bd[k \div 8][k % 8] = kingChar}
    IN  IF ks = {} THEN <<-1, -1>>
        ELSE LET k == CHOOSE x \in ks : \A y \in ks : y <= x
             IN  <<k \div 8, k % 8>>

\* Some move of moves ends on (kr, kf).
HitsSquare(moves, kr, kf) ==
    \E i \in 1 .. Len(moves) : moves[i].r2 = kr /\ moves[i].f2 = kf

\* The loops of the filter over the opponent's pieces on tmp, for the king
\* found on (kr, kf).
FilterAttacked(tmp, white_turn, kr, kf) ==
    \E rr \in Idx, ff \in Idx :
       /\ tmp[rr][ff] # Empty
       /\ ~(white_turn /\ is_white(tmp[rr][ff]))
       /\ ~(~white_turn /\ is_black(tmp[rr][ff]))
       /\ HitsSquare(generate_piece_moves(tmp, rr, ff, MAX_MOVES, ~white_turn), kr, kf)

\* in_check, given the result king of the king search on tmp.
FilterFlag(tmp, white_turn, king) ==
    IF king[1] = -1 THEN TRUE ELSE FilterAttacked(tmp, white_turn, king[1], king[2])

\* The in_check flag computed by the filter on tmp.
FilterInCheck(tmp, white_turn) ==
    FilterFlag(tmp, white_turn, FindKing(tmp, IF white_turn THEN "K" ELSE "k"))

\* generate_legal_moves without its legality filter.
generate_legal_moves_unfiltered(bd, white_turn) == PseudoScan(bd, white_turn)

\* The filter loop: out[] keeps, in order, the moves of all[] after which
\* in_check is 0 (count < MAX_MOVES always holds, all[] having at most
\* MAX_MOVES entries).
generate_legal_moves(bd, white_turn) ==
    SelectSeq(PseudoScan(bd, white_turn),
              LAMBDA m : ~FilterInCheck(FilterApply(bd, m), white_turn))

(***************************************************************************)
(* apply_move, evaluate_board, is_in_check.                                *)
(***************************************************************************)
\* apply_move without the tolower of line 278: a black pawn promotes to the
\* upper-case piece of the promotion field.
apply_move_no_tolower(bd, m) ==
    LET mover == bd[m.r1][m.f1]
        b1 == [bd EXCEPT ![m.r1][m.f1] = Empty]
    IN  IF toupper(mover) = "P" /\ (m.r2 = 0 \/ m.r2 = 7) /\ m.promotion # NoPromotion
        THEN [b1 EXCEPT ![m.r2][m.f2] = m.promotion]
        ELSE IF toupper(mover) = "P" /\ (m.r2 = 0 \/ m.r2 = 7)
                /\ m.promotion = NoPromotion
        THEN [b1 EXCEPT ![m.r2][m.f2] = IF is_white(mover) THEN "Q" ELSE "q"]
        ELSE [b1 EXCEPT ![m.r2][m.f2] = mover]

apply_move(bd, m) ==
    LET mover == bd[m.r1][m.f1]
        b1 == [bd EXCEPT ![m.r1][m.f1] = Empty]
    IN  IF toupper(mover) = "P" /\ (m.r2 = 0 \/ m.r2 = 7) /\ m.promotion # NoPromotion
        THEN [b1 EXCEPT ![m.r2][m.f2] =
                 IF is_black(mover) THEN tolower(m.promotion) ELSE m.promotion]
        ELSE IF toupper(mover) = "P" /\ (m.r2 = 0 \/ m.r2 = 7)
                /\ m.promotion = NoPromotion
        THEN [b1 EXCEPT ![m.r2][m.f2] = IF is_white(mover) THEN "Q" ELSE "q"]
        ELSE [b1 EXCEPT ![m.r2][m.f2] = mover]

\* The signed value one cell adds to score.
CellScore(p) ==
    IF p = Empty THEN 0
    ELSE IF is_white(p) THEN piece_value(p) ELSE -piece_value(p)

\* What the f loop adds to score on row r.
RowScore(bd, r) ==
    ((CellScore(bd[r][0]) + CellScore(bd[r][1])) + (CellScore(bd[r][2]) + CellScore(bd[r][3])))
    + ((CellScore(bd[r][4]) + CellScore(bd[r][5])) + (CellScore(bd[r][6]) + CellScore(bd[r][7])))

evaluate_board(bd) ==
    ((RowScore(bd, 0) + RowScore(bd, 1)) + (RowScore(bd, 2) + RowScore(bd, 3)))
    + ((RowScore(bd, 4) + RowScore(bd, 5)) + (RowScore(bd, 6) + RowScore(bd, 7)))

\* The loops of is_in_check over the opponent's pieces, for the king on (kr, kf).
CheckScan(bd, white_turn, kr, kf) ==
    \E r \in Idx, f \in Idx :
       /\ bd[r][f] # Empty
       /\ ~(white_turn /\ is_white(bd[r][f]))
       /\ ~(~white_turn /\ is_black(bd[r][f]))
       /\ \E m \in Range(generate_piece_moves(bd, r, f, MAX_MOVES, ~white_turn)) :
             m.r2 = kr /\ m.f2 = kf

CheckFrom(bd, white_turn, king) ==
    IF king[1] = -1 THEN TRUE ELSE CheckScan(bd, white_turn, king[1], king[2])

is_in_check(bd, white_turn) ==
    CheckFrom(bd, white_turn, FindKing(bd, IF white_turn THEN "K" ELSE "k"))

(***************************************************************************)
(* minimax with alpha-beta pruning, and choose_ai_move.                    *)
(***************************************************************************)
RECURSIVE minimax(_, _, _, _, _)
RECURSIVE Search(_, _, _, _, _, _)
RECURSIVE MaxLoop(_, _, _, _, _, _)
RECURSIVE MinLoop(_, _, _, _, _, _)
RECURSIVE MaxStep(_, _, _, _, _)
RECURSIVE MinStep(_, _, _, _, _)

\* The locals of the maximizing loop after a pass that got eval: alpha,
\* beta, maxEval (best), and cut, set when the pass ends in break.
MaxUpdate(st, eval) ==
    [alpha |-> IF eval > st.alpha THEN eval ELSE st.alpha,
     beta |-> st.beta,
     best |-> IF eval > st.best THEN eval ELSE st.best,
     cut |-> st.beta <= (IF eval > st.alpha THEN eval ELSE st.alpha)]

\* MinUpdate with a cut-off that does not wait for beta <= alpha: the loop
\* breaks as soon as a pass lowers beta.
MinUpdate_eager_cut(st, eval) ==
    [alpha |-> st.alpha,
     beta |-> IF eval < st.beta THEN eval ELSE st.beta,
     best |-> IF eval < st.best THEN eval ELSE st.best,
     cut |-> eval < st.beta]

MinUpdate(st, eval) ==
    [alpha |-> st.alpha,
     beta |-> IF eval < st.beta THEN eval ELSE st.beta,
     best |-> IF eval < st.best THEN eval ELSE st.best,
     cut |-> (IF eval < st.beta THEN eval ELSE st.beta) <= st.alpha]

\* One pass of the loop body on moves[i].
MaxStep(bd, moves, depth, st, i) ==
    MaxUpdate(st, minimax(apply_move(bd, moves[i]), depth - 1, st.alpha, st.beta, FALSE))

MinStep(bd, moves, depth, st, i) ==
    MinUpdate(st, minimax(apply_move(bd, moves[i]), depth - 1, st.alpha, st.beta, TRUE))

\* The for loop over moves[lo .. hi] from the locals st: the passes run in
\* index order and none runs after the break.
MaxLoop(bd, moves, depth, st, lo, hi) ==
    IF st.cut \/ lo > hi THEN st
    ELSE IF lo = hi THEN MaxStep(bd, moves, depth, st, lo)
    ELSE MaxLoop(bd, moves, depth,
                 MaxLoop(bd, moves, depth, st, lo, (lo + hi) \div 2),
                 ((lo + hi) \div 2) + 1, hi)

MinLoop(bd, moves, depth, st, lo, hi) ==
    IF st.cut \/ lo > hi THEN st
    ELSE IF lo = hi THEN MinStep(bd, moves, depth, st, lo)
    ELSE MinLoop(bd, moves, depth,
                 MinLoop(bd, moves, depth, st, lo, (lo + hi) \div 2),
                 ((lo + hi) \div 2) + 1, hi)

\* The body of minimax with the test of depth made before that of n: the
\* static evaluation is returned at depth 0 whatever n is.
Search_depth_first(bd, depth, alpha, beta, maximizingPlayer, moves) ==
    IF depth = 0 THEN evaluate_board(bd)
    ELSE IF Len(moves) = 0
         THEN IF is_in_check(bd, maximizingPlayer)
              THEN (IF maximizingPlayer THEN -MateMagnitude ELSE MateMagnitude)
              ELSE 0
    ELSE IF maximizingPlayer
         THEN MaxLoop(bd, moves, depth,
                      [alpha |-> alpha, beta |-> beta, best |-> INT_MIN, cut |-> FALSE],
                      1, Len(moves)).best
         ELSE MinLoop(bd, moves, depth,
                      [alpha |-> alpha, beta |-> beta, best |-> INT_MAX, cut |-> FALSE],
                      1, Len(moves)).best

\* The body of minimax once moves[] holds the n legal moves.
Search(bd, depth, alpha, beta, maximizingPlayer, moves) ==
    IF depth = 0 \/ Len(moves) = 0
    THEN IF Len(moves) = 0
         THEN IF is_in_check(bd, maximizingPlayer)
              THEN (IF maximizingPlayer THEN -MateMagnitude ELSE MateMagnitude)
              ELSE 0
         ELSE evaluate_board(bd)
    ELSE IF maximizingPlayer
         THEN MaxLoop(bd, moves, depth,
                      [alpha |-> alpha, beta |-> beta, best |-> INT_MIN, cut |-> FALSE],
                      1, Len(moves)).best
         ELSE MinLoop(bd, moves, depth,
                      [alpha |-> alpha, beta |-> beta, best |-> INT_MAX, cut |-> FALSE],
                      1, Len(moves)).best

minimax(bd, depth, alpha, beta, maximizingPlayer) ==
    Search(bd, depth, alpha, beta, maximizingPlayer,
           generate_legal_moves(bd, maximizingPlayer))

NoMove == Move(0, 0, 0, 0, NoPromotion)

\* The pass of the root loop with >= and <= for > and <: a move that only
\* equals the best score so far replaces best.
RootUpdate_not_strict(white_turn, st, moves, score) ==
    IF (white_turn /\ score >= st.bestScore) \/ (~white_turn /\ score <= st.bestScore)
    THEN [i |-> st.i + 1, bestScore |-> score, best |-> moves[st.i + 1]]
    ELSE [i |-> st.i + 1, bestScore |-> st.bestScore, best |-> st.best]

\* The locals of the root loop after the pass with i = st.i, in which
\* minimax returned score: i, bestScore and best.
RootUpdate(white_turn, st, moves, score) ==
    IF (white_turn /\ score > st.bestScore) \/ (~white_turn /\ score < st.bestScore)
    THEN [i |-> st.i + 1, bestScore |-> score, best |-> moves[st.i + 1]]
    ELSE [i |-> st.i + 1, bestScore |-> st.bestScore, best |-> st.best]

\* score in the pass on moves[i]: minimax on the copy with moves[i] applied,
\* the window being the same in every pass.
RootScores(bd, white_turn, moves, aiDepth) ==
    [i \in 1 .. Len(moves) |->
        minimax(apply_move(bd, moves[i]), aiDepth - 1,
                CDiv(INT_MIN, 2), CDiv(INT_MAX, 2), ~white_turn)]

\* The root loop run from the locals st until i reaches hi, the passes in
\* index order (st.i counts the passes done; moves and scores count from 1).
RECURSIVE RootLoop(_, _, _, _, _)
RootLoop(white_turn, moves, scores, st, hi) ==
    IF st.i >= hi THEN st
    ELSE IF st.i + 1 = hi THEN RootUpdate(white_turn, st, moves, scores[hi])
    ELSE RootLoop(white_turn, moves, scores,
                  RootLoop(white_turn, moves, scores, st, (st.i + hi) \div 2),
                  hi)

\* The body of choose_ai_move once moves[] holds the n legal moves.
ChooseFrom(bd, white_turn, aiDepth, moves) ==
    IF Len(moves) = 0 THEN NoMove
    ELSE RootLoop(white_turn, moves, RootScores(bd, white_turn, moves, aiDepth),
                  [i |-> 0,
                   bestScore |-> IF white_turn THEN INT_MIN ELSE INT_MAX,
                   best |-> NoMove],
                  Len(moves)).best

\* choose_ai_move, the global AI_DEPTH being passed as aiDepth.
choose_ai_move(bd, white_turn, aiDepth) ==
    ChooseFrom(bd, white_turn, aiDepth, generate_legal_moves(bd, white_turn))

(***************************************************************************)
(* Reading a move: an input line is a sequence of characters.              *)
(***************************************************************************)
FileIndex(c) ==
    CASE c = "a" -> 0 [] c = "b" -> 1 [] c = "c" -> 2 [] c = "d" -> 3
      [] c = "e" -> 4 [] c = "f" -> 5 [] c = "g" -> 6 [] c = "h" -> 7
      [] OTHER -> -1

RankDigit(c) ==
    CASE c = "1" -> 1 [] c = "2" -> 2 [] c = "3" -> 3 [] c = "4" -> 4
      [] c = "5" -> 5 [] c = "6" -> 6 [] c = "7" -> 7 [] c = "8" -> 8
      [] OTHER -> -1

\* alg_to_coords on the two characters file, rank: <<ok, r, f>>.
alg_to_coords(file, rank) ==
    IF FileIndex(file) = -1 \/ RankDigit(rank) = -1 THEN <<FALSE, 0, 0>>
    ELSE <<TRUE, 8 - RankDigit(rank), FileIndex(file)>>

PromotionLetters == {"Q", "R", "B", "N"}

\* parse_move_input: [ok, m].
parse_move_input(line) ==
    LET tmp == SelectSeq(line, LAMBDA c : c # " ")
        idx == Len(tmp)
        from == alg_to_coords(tmp[1], tmp[2])
        to == alg_to_coords(tmp[3], tmp[4])
        prom == IF idx >= 5 /\ toupper(tmp[5]) \in PromotionLetters
                THEN toupper(tmp[5]) ELSE NoPromotion
    IN  IF idx < 4 \/ ~from[1] \/ ~to[1] THEN [ok |-> FALSE, m |-> NoMove]
        ELSE [ok |-> TRUE, m |-> Move(from[2], from[3], to[2], to[3], prom)]

\* strncmp(input, "quit", 4) == 0
IsQuit(line) == Len(line) >= 4 /\ SubSeq(line, 1, 4) = <<"q", "u", "i", "t">>

\* The matching loop comparing the origin only.
FindLegal_origin_only(legalMoves, m) ==
    LET hits == {i \in 1 .. Len(legalMoves) :
                    legalMoves[i].r1 = m.r1 /\ legalMoves[i].f1 = m.f1}
    IN  IF hits = {} THEN 0 ELSE CHOOSE i \in hits : \A j \in hits : i <= j

\* The matching loop of the human branch: the index of the first legal move
\* with the origin and destination of m, or 0 when found stays 0.
FindLegal(legalMoves, m) ==
    LET hits == {i \in 1 .. Len(legalMoves) :
                    /\ legalMoves[i].r1 = m.r1 /\ legalMoves[i].f1 = m.f1
                    /\ legalMoves[i].r2 = m.r2 /\ legalMoves[i].f2 = m.f2}
    IN  IF hits = {} THEN 0 ELSE CHOOSE i \in hits : \A j \in hits : i <= j

\* The move the human branch applies for the matched legal move lm: its
\* promotion is that of the request m, after the prompt when a pawn reaches
\* a last rank and the request names no piece (answer is what the user types).
AcceptedMove(board, lm, m, answer) ==
    LET mover == board[m.r1][m.f1]
        prompted == IF toupper(mover) = "P" /\ (m.r2 = 0 \/ m.r2 = 7)
                       /\ m.promotion = NoPromotion
                    THEN (IF is_white(mover) THEN answer ELSE tolower(answer))
                    ELSE m.promotion
    IN  [lm EXCEPT !.promotion = prompted]

\* The end-of-game test at the top of the loop: what is printed before break.
EndOfGame(board, turn) ==
    IF Len(generate_legal_moves(board, turn)) # 0 THEN "none"
    ELSE IF is_in_check(board, turn)
         THEN (IF turn THEN "checkmate_black_wins" ELSE "checkmate_white_wins")
         ELSE "stalemate"

\* ai_move after the fallback to legalMoves[0] on the sentinel.
AIFallback(chosen, legalMoves) ==
    IF chosen.r1 = 0 /\ chosen.f1 = 0 /\ chosen.r2 = 0 /\ chosen.f2 = 0
    THEN legalMoves[1] ELSE chosen

\* ai_move with its promotion field set to 'q' when a pawn reaches a last rank.
AIPromotion(board, ai_move) ==
    IF toupper(board[ai_move.r1][ai_move.f1]) = "P" /\ (ai_move.r2 = 0 \/ ai_move.r2 = 7)
       /\ ai_move.promotion = NoPromotion
    THEN [ai_move EXCEPT !.promotion = "q"]
    ELSE ai_move

\* The move the computer branch applies.
AIAppliedMove(board, legalMoves, aiDepth) ==
    AIPromotion(board, AIFallback(choose_ai_move(board, FALSE, aiDepth), legalMoves))

(***************************************************************************)
(* Bounds of the model and the inputs it draws.                            *)
(***************************************************************************)
\* The turn loop is followed for at most MaxPlies applied moves.
MaxPlies == 7
\* Two players are followed for at most MaxPlayPlies applied moves.
MaxPlayPlies == 6
\* From a constructed position, at most MaxPosPlies moves are applied.
MaxPosPlies == 1
\* The configured search depths the turn loop is run with: 1 .. MaxAIDepth.
MaxAIDepth == 1
\* Constructed positions keep their pieces in the corner of ZoneSize x ZoneSize
\* cells at a8 (and, mirrored, at a1).
ZoneSize == 3

Char(c) == <<c>>
Files == <<"a", "b", "c", "d", "e", "f", "g", "h">>
Ranks == <<"8", "7", "6", "5", "4", "3", "2", "1">>
\* The two characters naming the cell (r, f).
SquareName(r, f) == <<Files[f + 1], Ranks[r + 1]>>

Zone == {<<r, f>> : r \in 0 .. (ZoneSize - 1), f \in 0 .. (ZoneSize - 1)}
MirrorZone == {<<7 - sq[1], sq[2]>> : sq \in Zone}

\* The line naming the move from (r1, f1) to (r2, f2).
MoveLine(r1, f1, r2, f2) == SquareName(r1, f1) \o SquareName(r2, f2)

\* What the user of the turn loop may type: the moves of 1.e4 2.Qh5 3.Bc4
\* 4.Qxf7 and a few others, legal or not; a line with an inner blank, lines
\* with a fifth character, and lines that name no move.
GameLines ==
    {MoveLine(6, 4, 4, 4), MoveLine(7, 3, 3, 7), MoveLine(7, 5, 4, 2),
     MoveLine(3, 7, 1, 5), MoveLine(4, 2, 1, 5), MoveLine(6, 5, 5, 5),
     MoveLine(6, 4, 3, 4), MoveLine(1, 4, 3, 4), MoveLine(7, 3, 7, 3),
     <<"f", "2", " ", "f", "4">>, <<"e", "2", "e", "3", "q">>,
     <<"f", "2">>, <<"z", "2", "f", "3">>, <<"f", "9", "f", "3">>}

\* Every line of lines with what parse_move_input makes of it.
Parsed(lines) == {<<line, parse_move_input(line)>> : line \in lines}

GameInputs == Parsed(GameLines)

\* The cells the two players move between: those of 1.f3 e5 2.g4 Qh4 and of
\* g3, e6, the white king's e1 and the black bishop's f8, c5.
PlaySquares ==
    {<<6, 5>>, <<5, 5>>, <<6, 6>>, <<4, 6>>, <<5, 6>>, <<1, 4>>, <<3, 4>>,
     <<2, 4>>, <<0, 3>>, <<4, 7>>, <<7, 4>>, <<0, 5>>, <<3, 2>>}

\* The cells moved between on a constructed position.
ZoneSquares == Zone \cup MirrorZone

\* The promotion field a caller may set on a move.
PromotionChoices == {NoPromotion} \cup PromotionLetters

(***************************************************************************)
(* Constructed positions: the two kings and at most one more piece, in the *)
(* corner zone, and the same positions mirrored with the colours swapped.  *)
(***************************************************************************)
EmptyBoard == [r \in Idx |-> [f \in Idx |-> Empty]]

Place(board, sq, piece) == [board EXCEPT ![sq[1]][sq[2]] = piece]

SwapColor(p) == IF is_white(p) THEN tolower(p) ELSE toupper(p)

Mirror(board) == [r \in Idx |-> [f \in Idx |-> SwapColor(board[7 - r][f])]]

ExtraKinds == {"Q", "R", "B", "N", "P", "q", "r", "b", "n", "p"}

\* The black king on a8, the white king on another zone cell.
KingPairs == {Place(Place(EmptyBoard, <<0, 0>>, "k"), sq, "K") : sq \in Zone \ {<<0, 0>>}}

CornerPositions ==
    KingPairs \cup
    UNION {{Place(b, sq, x) : sq \in {z \in Zone : b[z[1]][z[2]] = Empty}, x \in ExtraKinds} :
             b \in KingPairs}

\* The position after 1.f3 e5 2.g3 Qh4: the pawn on g3 is pinned to the king.
PinnedBoard ==
    BoardOf(<< <<"r", "n", "b", ".", "k", "b", "n", "r">>,
               <<"p", "p", "p", "p", ".", "p", "p", "p">>,
               EmptyRow,
               <<".", ".", ".", ".", "p", ".", ".", ".">>,
               <<".", ".", ".", ".", ".", ".", ".", "q">>,
               <<".", ".", ".", ".", ".", "P", "P", ".">>,
               <<"P", "P", "P", "P", "P", ".", ".", "P">>,
               <<"R", "N", "B", "Q", "K", "B", "N", "R">> >>)

\* Positions with the black king missing: a white king and one more piece.
LonePositions ==
    {Place(Place(EmptyBoard, <<1, 1>>, "K"), sq, x) :
        sq \in {<<0, 0>>, <<2, 2>>}, x \in {"p", "P", "r"}}

StartPositions ==
    CornerPositions \cup {Mirror(b) : b \in CornerPositions}
        \cup LonePositions \cup {Mirror(b) : b \in LonePositions}
        \cup {init_board, PinnedBoard}

(***************************************************************************)
(* State.                                                                  *)
(***************************************************************************)
VARIABLES
    bd,          \* main's Board bd
    white_turn,  \* main's white_turn
    pc,          \* "loop" while the turn loop runs, "done" after its break
    outcome,     \* what the loop printed when it ended
    request,     \* the last input line read
    AI_DEPTH,    \* the global AI_DEPTH
    start,       \* history: the position play started from
    played,      \* history: the moves applied since, in order
    depth,       \* the depth a search is called with
    ret,         \* what the last call returned
    stack        \* the frames of the calls in progress, the newest last

vars == <<bd, white_turn, pc, outcome, request, AI_DEPTH, start, played, depth, ret, stack>>

\* The state of a search, untouched by the turn loop's actions.
search == <<depth, ret, stack>>

NoRet == [fn |-> "none"]

(***************************************************************************)
(* The turn loop of main: every action is one pass of the while (1) body.  *)
(***************************************************************************)
\* nmoves == 0: the result is printed and the loop is left.
GameOver ==
    /\ pc = "loop"
    /\ \E result \in {EndOfGame(bd, white_turn)} :
          /\ result # "none"
          /\ outcome' = result
    /\ pc' = "done"
    /\ UNCHANGED <<bd, white_turn, request, AI_DEPTH, start, played>>
    /\ UNCHANGED search

\* fgets fails, or the line starts with quit: break.
InputEnds ==
    /\ pc = "loop"
    /\ white_turn
    /\ Len(generate_legal_moves(bd, white_turn)) # 0
    /\ \E how \in {"eof", "quit"} :
          /\ pc' = "done"
          /\ outcome' = how
          /\ request' = IF how = "quit" THEN <<"q", "u", "i", "t">> ELSE request
    /\ UNCHANGED <<bd, white_turn, AI_DEPTH, start, played>>
    /\ UNCHANGED search

\* The rest of the human branch on one input line, for the side to move:
\* a line that does not parse, or that matches no legal move, changes
\* nothing but the line read (continue); a match is applied and the turn
\* passes to nextTurn.
HumanBranch(inputs, limit, nextTurn) ==
    /\ pc = "loop"
    /\ Len(played) < limit
    /\ \E legalMoves \in {generate_legal_moves(bd, white_turn)} :
          /\ Len(legalMoves) # 0
          /\ \E in \in inputs :
                \E found \in {IF in[2].ok THEN FindLegal(legalMoves, in[2].m) ELSE 0} :
                   /\ request' = in[1]
                   /\ IF found = 0
                      THEN UNCHANGED <<bd, white_turn, played>>
                      ELSE \E answer \in PromotionLetters :
                              \E lm \in {AcceptedMove(bd, legalMoves[found], in[2].m, answer)} :
                                 /\ bd' = apply_move(bd, lm)
                                 /\ white_turn' = nextTurn
                                 /\ played' = Append(played, lm)
    /\ UNCHANGED <<pc, outcome, AI_DEPTH, start>>
    /\ UNCHANGED search

HumanTurn == white_turn /\ HumanBranch(GameInputs, MaxPlies, FALSE)

\* The computer branch: Black's move is chosen, printed and applied.
AITurn ==
    /\ pc = "loop"
    /\ ~white_turn
    /\ Len(played) < MaxPlies
    /\ \E legalMoves \in {generate_legal_moves(bd, white_turn)} :
          /\ Len(legalMoves) # 0
          /\ \E ai_move \in {AIAppliedMove(bd, legalMoves, AI_DEPTH)} :
                /\ bd' = apply_move(bd, ai_move)
                /\ played' = Append(played, ai_move)
    /\ white_turn' = TRUE
    /\ UNCHANGED <<pc, outcome, request, AI_DEPTH, start>>
    /\ UNCHANGED search

Init ==
    /\ bd = init_board
    /\ white_turn = TRUE
    /\ pc = "loop"
    /\ outcome = "none"
    /\ request = <<>>
    /\ AI_DEPTH \in 1 .. MaxAIDepth
    /\ start = init_board
    /\ played = <<>>
    /\ depth = 0
    /\ ret = NoRet
    /\ stack = <<>>

Next == GameOver \/ InputEnds \/ HumanTurn \/ AITurn

Spec == Init /\ [][Next]_vars

(***************************************************************************)
(* The engine called move by move, as the turn loop calls it: the moves    *)
(* are those of generate_legal_moves for the side to move, one of them     *)
(* (between cells of squares) is applied with apply_move under any         *)
(* promotion field, and the turn passes to the other side.                 *)
(***************************************************************************)
PlayMove(squares, limit) ==
    /\ pc = "loop"
    /\ Len(played) < limit
    /\ \E legalMoves \in {generate_legal_moves(bd, white_turn)} :
          \E i \in 1 .. Len(legalMoves), promotion \in PromotionChoices :
             \E lm \in {[legalMoves[i] EXCEPT !.promotion = promotion]} :
                /\ <<lm.r1, lm.f1>> \in squares
                /\ <<lm.r2, lm.f2>> \in squares
                /\ promotion # NoPromotion =>
                      /\ toupper(bd[lm.r1][lm.f1]) = "P"
                      /\ lm.r2 \in {0, 7}
                /\ bd' = apply_move(bd, lm)
                /\ white_turn' = ~white_turn
                /\ played' = Append(played, lm)
    /\ UNCHANGED <<pc, outcome, request, AI_DEPTH, start>>
    /\ UNCHANGED search

\* From the initial position.
PlayerTurn == PlayMove(PlaySquares, MaxPlayPlies)

NextPlay == GameOver \/ PlayerTurn

SpecPlay == Init /\ [][NextPlay]_vars

\* The loop does not stop between two passes: its test of nmoves == 0 at the
\* top of a pass is made whenever it can be.
SpecPlayFair == SpecPlay /\ WF_vars(GameOver)

\* From every constructed position, with either side to move.
InitPos ==
    /\ start \in StartPositions
    /\ bd = start
    /\ white_turn \in BOOLEAN
    /\ pc = "loop"
    /\ outcome = "none"
    /\ request = <<>>
    /\ AI_DEPTH \in 1 .. MaxAIDepth
    /\ played = <<>>
    /\ depth = 0
    /\ ret = NoRet
    /\ stack = <<>>

PosTurn == PlayMove(ZoneSquares, MaxPosPlies)

NextPos == GameOver \/ PosTurn

SpecPos == InitPos /\ [][NextPos]_vars

(***************************************************************************)
(* The searches called on a position: minimax with the window of the root  *)
(* driver at a depth of 0 .. MaxDepth, and choose_ai_move with AI_DEPTH set *)
(* to that depth when it is at least 1.                                     *)
(***************************************************************************)
\* Searches look 0 .. MaxDepth plies ahead.
MaxDepth == 2

SearchKinds == {"Q", "P", "p", "n"}
SearchKingSquares == {<<2, 1>>, <<1, 2>>, <<2, 2>>}

\* The constructed positions searched: the white king on one of three cells.
SearchCorner ==
    {b \in CornerPositions :
        /\ \E sq \in SearchKingSquares : b[sq[1]][sq[2]] = "K"
        /\ \A r \in Idx, f \in Idx : b[r][f] \in {Empty, "k", "K"} \cup SearchKinds}

SearchPositions == SearchCorner \cup {Mirror(b) : b \in SearchCorner}

InitEval ==
    /\ start \in SearchPositions
    /\ bd = start
    /\ white_turn \in BOOLEAN
    /\ depth \in 0 .. MaxDepth
    /\ AI_DEPTH = IF depth = 0 THEN 1 ELSE depth
    /\ pc = "ready"
    /\ outcome = "none"
    /\ request = <<>>
    /\ played = <<>>
    /\ ret = NoRet
    /\ stack = <<>>

RootAlpha == CDiv(INT_MIN, 2)
RootBeta == CDiv(INT_MAX, 2)

CallMinimax ==
    /\ pc = "ready"
    /\ ret' = [fn |-> "minimax", val |-> minimax(bd, depth, RootAlpha, RootBeta, white_turn)]
    /\ pc' = "returned"
    /\ UNCHANGED <<bd, white_turn, outcome, request, AI_DEPTH, start, played, depth, stack>>

CallChoose ==
    /\ pc = "ready"
    /\ AI_DEPTH = depth
    /\ ret' = [fn |-> "choose_ai_move", val |-> choose_ai_move(bd, white_turn, AI_DEPTH)]
    /\ pc' = "returned"
    /\ UNCHANGED <<bd, white_turn, outcome, request, AI_DEPTH, start, played, depth, stack>>

NextEval == CallMinimax \/ CallChoose

SpecEval == InitEval /\ [][NextEval]_vars

(***************************************************************************)
(* The searches run call by call: stack holds one frame for every call of  *)
(* choose_ai_move or minimax in progress, with that call's arguments and   *)
(* locals. The Board *bd of the outermost call points to the variable bd,  *)
(* that of every other call to the local tmp of its caller. A step is the  *)
(* part of the top call's body up to its next call of minimax, or up to    *)
(* its return.                                                              *)
(***************************************************************************)
\* Searches run call by call look 0 .. MaxSearchDepth plies ahead.
MaxSearchDepth == 3

\* The positions searched call by call: the black king on a8 against the
\* white king alone, with a queen (stalemate with Black to move), with a
\* pawn about to promote, and against a black knight; and the second of
\* them mirrored with the colours swapped.
QueenRoot ==
    Place(Place(Place(EmptyBoard, <<0, 0>>, "k"), <<2, 1>>, "K"), <<1, 2>>, "Q")

SearchRoots ==
    {Place(Place(EmptyBoard, <<0, 0>>, "k"), <<2, 2>>, "K"),
     QueenRoot,
     Place(Place(Place(EmptyBoard, <<0, 0>>, "k"), <<2, 2>>, "K"), <<1, 1>>, "P"),
     Place(Place(Place(EmptyBoard, <<0, 0>>, "k"), <<2, 1>>, "K"), <<1, 2>>, "n"),
     Mirror(QueenRoot)}

\* The windows minimax is entered with: that of the root driver, and a
\* narrow one.
SearchWindows == {<<RootAlpha, RootBeta>>, <<-1, 1>>}

\* The local Board tmp of a call before its first copy_board: its cells
\* hold nothing the call reads.
Unwritten == [r \in Idx |-> [f \in Idx |-> "?"]]

\* The frame of a call of minimax at its loop, or at its return when the
\* test of depth == 0 || n == 0 holds: the arguments, moves[] as
\* generate_legal_moves filled it from the board bd points to, i, maxEval
\* or minEval (best), and tmp. Two fields are history: bd is the board bd
\* pointed to when the call was entered, path the moves applied to the
\* root position to get it.
MinimaxFrame(board, d, alpha, beta, maximizingPlayer, path) ==
    [fn |-> "minimax", bd |-> board, depth |-> d, alpha |-> alpha, beta |-> beta,
     side |-> maximizingPlayer,
     moves |-> generate_legal_moves(board, maximizingPlayer),
     i |-> 0,
     best |-> IF maximizingPlayer THEN INT_MIN ELSE INT_MAX,
     bestMove |-> NoMove, cut |-> FALSE, path |-> path, tmp |-> Unwritten]

\* The frame of a call of choose_ai_move at its loop: bestScore (best) and
\* best (bestMove); depth is the global AI_DEPTH, and the window fields are
\* those it passes on.
ChooseFrame(board, turn, aiDepth) ==
    [fn |-> "choose_ai_move", bd |-> board, depth |-> aiDepth,
     alpha |-> CDiv(INT_MIN, 2), beta |-> CDiv(INT_MAX, 2),
     side |-> turn,
     moves |-> generate_legal_moves(board, turn),
     i |-> 0,
     best |-> IF turn THEN INT_MIN ELSE INT_MAX,
     bestMove |-> NoMove, cut |-> FALSE, path |-> <<>>, tmp |-> Unwritten]

\* minimax returns without a recursive call.
Terminal(fr) == fr.fn = "minimax" /\ (fr.depth = 0 \/ Len(fr.moves) = 0)

\* The loop of the call is over: i reached n, or the pass ended in break.
LoopDone(fr) == fr.cut \/ fr.i >= Len(fr.moves)

\* The board the Board *bd of the call of frame k points to.
Pointee(stk, root, k) == IF k = 1 THEN root ELSE stk[k - 1].tmp

\* apply_move(bd, m) in place of copy_board(&tmp, bd); apply_move(&tmp, m):
\* the move is made on the board bd points to, which is then passed on.
CallWrites_in_place(pointee, m) ==
    [pointee |-> apply_move(pointee, m), tmp |-> apply_move(pointee, m)]

\* copy_board(&tmp, bd); apply_move(&tmp, m): the two boards afterwards.
\* tmp is written whole and then moved on; the board bd points to is read.
CallWrites(pointee, m) ==
    [pointee |-> pointee, tmp |-> apply_move(pointee, m)]

\* The recursive call of minimax on tmp with the depth called with, not
\* lowered.
MinimaxChild_same_depth(fr, tmp) ==
    MinimaxFrame(tmp, fr.depth, fr.alpha, fr.beta, ~fr.side,
                 Append(fr.path, fr.moves[fr.i + 1]))

\* The recursive call of minimax in the pass on moves[i]: on tmp, with
\* depth - 1, the window as it stands, and the other side.
MinimaxChild(fr, tmp) ==
    MinimaxFrame(tmp, fr.depth - 1, fr.alpha, fr.beta, ~fr.side,
                 Append(fr.path, fr.moves[fr.i + 1]))

\* The call of minimax in the pass of choose_ai_move on moves[i].
ChooseChild(fr, tmp) ==
    MinimaxFrame(tmp, fr.depth - 1, CDiv(INT_MIN, 2), CDiv(INT_MAX, 2), ~fr.side,
                 Append(fr.path, fr.moves[fr.i + 1]))

\* What the call returns once it is Terminal or LoopDone, board being the
\* board its bd points to.
ReturnValue(fr, board) ==
    IF fr.fn = "choose_ai_move" THEN fr.bestMove
    ELSE IF Terminal(fr)
         THEN Search(board, fr.depth, fr.alpha, fr.beta, fr.side, fr.moves)
         ELSE fr.best

\* The rest of the pass of minimax on moves[i] once the call returned eval.
MinimaxAbsorb(fr, eval) ==
    LET st == IF fr.side
              THEN MaxUpdate([alpha |-> fr.alpha, beta |-> fr.beta,
                              best |-> fr.best, cut |-> fr.cut], eval)
              ELSE MinUpdate([alpha |-> fr.alpha, beta |-> fr.beta,
                              best |-> fr.best, cut |-> fr.cut], eval)
    IN  [fr EXCEPT !.alpha = st.alpha, !.beta = st.beta, !.best = st.best,
                   !.cut = st.cut, !.i = fr.i + 1]

\* The rest of the pass of choose_ai_move on moves[i] once the call
\* returned score.
ChooseAbsorb(fr, score) ==
    LET st == RootUpdate(fr.side,
                         [i |-> fr.i, bestScore |-> fr.best, best |-> fr.bestMove],
                         fr.moves, score)
    IN  [fr EXCEPT !.i = st.i, !.best = st.bestScore, !.bestMove = st.best]

Top == stack[Len(stack)]

\* The stack once the top call has written w.tmp to its tmp and w.pointee
\* to the board its bd points to (when that is a caller's tmp), and has
\* made the call of frame child.
Pushed(w, child) ==
    Append([k \in 1 .. Len(stack) |->
               IF k = Len(stack) THEN [stack[k] EXCEPT !.tmp = w.tmp]
               ELSE IF k = Len(stack) - 1 THEN [stack[k] EXCEPT !.tmp = w.pointee]
               ELSE stack[k]],
           child)

\* The stack once its top call has returned val: the caller goes on with
\* the rest of its pass.
Popped(val) ==
    IF Len(stack) = 1 THEN <<>>
    ELSE LET caller == stack[Len(stack) - 1]
         IN  Append(SubSeq(stack, 1, Len(stack) - 2),
                    IF caller.fn = "choose_ai_move"
                    THEN ChooseAbsorb(caller, val)
                    ELSE MinimaxAbsorb(caller, val))

InitSearch ==
    /\ start \in SearchRoots
    /\ bd = start
    /\ white_turn \in BOOLEAN
    /\ depth \in 0 .. MaxSearchDepth
    /\ AI_DEPTH = IF depth = 0 THEN 1 ELSE depth
    /\ pc = "ready"
    /\ outcome = "none"
    /\ request = <<>>
    /\ played = <<>>
    /\ ret = NoRet
    /\ stack = <<>>

\* minimax is called on the position, bd pointing to the variable bd.
EnterMinimax ==
    /\ pc = "ready"
    /\ \E w \in SearchWindows :
          stack' = <<MinimaxFrame(bd, depth, w[1], w[2], white_turn, <<>>)>>
    /\ pc' = "search"
    /\ UNCHANGED <<bd, white_turn, outcome, request, AI_DEPTH, start, played, depth, ret>>

\* choose_ai_move is called on the position.
EnterChoose ==
    /\ pc = "ready"
    /\ AI_DEPTH = depth
    /\ stack' = <<ChooseFrame(bd, white_turn, AI_DEPTH)>>
    /\ pc' = "search"
    /\ UNCHANGED <<bd, white_turn, outcome, request, AI_DEPTH, start, played, depth, ret>>

\* The top call is minimax in a pass of its loop: it fills tmp and calls
\* itself on it.
MinimaxCalls ==
    /\ pc = "search"
    /\ Top.fn = "minimax"
    /\ ~Terminal(Top) /\ ~LoopDone(Top)
    /\ \E w \in {CallWrites(Pointee(stack, bd, Len(stack)), Top.moves[Top.i + 1])} :
          /\ stack' = Pushed(w, MinimaxChild(Top, w.tmp))
          /\ bd' = IF Len(stack) = 1 THEN w.pointee ELSE bd
    /\ UNCHANGED <<white_turn, pc, outcome, request, AI_DEPTH, start, played, depth, ret>>

\* The top call is choose_ai_move in a pass of its loop: it fills tmp and
\* calls minimax on it.
ChooseCalls ==
    /\ pc = "search"
    /\ Top.fn = "choose_ai_move"
    /\ ~LoopDone(Top)
    /\ \E w \in {CallWrites(Pointee(stack, bd, Len(stack)), Top.moves[Top.i + 1])} :
          /\ stack' = Pushed(w, ChooseChild(Top, w.tmp))
          /\ bd' = IF Len(stack) = 1 THEN w.pointee ELSE bd
    /\ UNCHANGED <<white_turn, pc, outcome, request, AI_DEPTH, start, played, depth, ret>>

\* The top call returns, to its caller or out of the search.
Returns(fn) ==
    /\ pc = "search"
    /\ Top.fn = fn
    /\ Terminal(Top) \/ LoopDone(Top)
    /\ \E val \in {ReturnValue(Top, Pointee(stack, bd, Len(stack)))} :
          /\ stack' = Popped(val)
          /\ IF Len(stack) = 1
             THEN /\ ret' = [fn |-> fn, val |-> val]
                  /\ pc' = "returned"
             ELSE UNCHANGED <<ret, pc>>
    /\ UNCHANGED <<bd, white_turn, outcome, request, AI_DEPTH, start, played, depth>>

MinimaxReturns == Returns("minimax")

ChooseReturns == Returns("choose_ai_move")

SearchStep == MinimaxCalls \/ ChooseCalls \/ MinimaxReturns \/ ChooseReturns

NextSearch == EnterMinimax \/ EnterChoose \/ SearchStep

SpecSearch == InitSearch /\ [][NextSearch]_vars

\* A call in progress goes on: the program does not stop inside a search.
SpecSearchFair == SpecSearch /\ WF_vars(SearchStep)

(***************************************************************************)
(* Properties.                                                             *)
(***************************************************************************)
\* The move m with its promotion field set to pr.
WithPromotion(m, pr) == [m EXCEPT !.promotion = pr]

\* Every move of the list, applied with any promotion choice, leaves side s
\* out of check.
AllLeaveSafe(board, s, moves) ==
    \A i \in 1 .. Len(moves) : \A pr \in PromotionChoices :
        ~is_in_check(apply_move(board, WithPromotion(moves[i], pr)), s)

\* C1: for the position held and either side s, every move returned by
\* generate_legal_moves, applied by apply_move with any promotion choice among
\* none, Q, R, B, N, gives a position where is_in_check for s is false.
C1_LegalityClosure ==
    \A s \in BOOLEAN : AllLeaveSafe(bd, s, generate_legal_moves(bd, s))

\* A legal promotion to a rook has been applied from a position where the
\* filter had rejected some pseudo-legal move of the mover.
C1_Witness ==
    /\ Len(played) = 1
    /\ played[1].promotion = "R"
    /\ bd[played[1].r2][played[1].f2] \in {"R", "r"}
    /\ Len(generate_legal_moves(start, ~white_turn)) < Len(PseudoScan(start, ~white_turn))
    /\ ~is_in_check(bd, ~white_turn)

\* The greatest and the least member of a non-empty set of integers.
SetMax(S) == CHOOSE x \in S : \A y \in S : y <= x
SetMin(S) == CHOOSE x \in S : \A y \in S : x <= y

\* The minimax value without a window: the greatest (White to move) or the
\* least (Black to move) of the values of all the children, with the terminal
\* scoring and the evaluator of minimax.
RECURSIVE FullMinimax(_, _, _)
FullValue(board, d, maximizingPlayer, moves) ==
    IF Len(moves) = 0
    THEN IF is_in_check(board, maximizingPlayer)
         THEN (IF maximizingPlayer THEN -MateMagnitude ELSE MateMagnitude)
         ELSE 0
    ELSE IF d = 0 THEN evaluate_board(board)
    ELSE IF maximizingPlayer
         THEN SetMax({FullMinimax(apply_move(board, moves[i]), d - 1, FALSE) :
                         i \in 1 .. Len(moves)})
         ELSE SetMin({FullMinimax(apply_move(board, moves[i]), d - 1, TRUE) :
                         i \in 1 .. Len(moves)})

FullMinimax(board, d, maximizingPlayer) ==
    FullValue(board, d, maximizingPlayer, generate_legal_moves(board, maximizingPlayer))

\* C2: minimax called with the window of the root driver (INT_MIN/2,
\* INT_MAX/2) returns the score of the unpruned minimax over the same legal
\* moves, terminal scoring and evaluator at the same depth.
C2_AlphaBetaEquivalence ==
    (pc = "returned" /\ ret.fn = "minimax") =>
        ret.val = FullMinimax(bd, depth, white_turn)

\* The loop of the node (board, d) breaks before its last move when entered
\* with the window (alpha, beta).
LoopBreaks(board, d, alpha, beta, maximizingPlayer, moves) ==
    /\ Len(moves) >= 2
    /\ IF maximizingPlayer
       THEN MaxLoop(board, moves, d,
                    [alpha |-> alpha, beta |-> beta, best |-> INT_MIN, cut |-> FALSE],
                    1, Len(moves) - 1).cut
       ELSE MinLoop(board, moves, d,
                    [alpha |-> alpha, beta |-> beta, best |-> INT_MAX, cut |-> FALSE],
                    1, Len(moves) - 1).cut

\* The window with which the loop of the root (bd, depth) calls minimax on
\* its last move.
LastWindow(moves) ==
    IF white_turn
    THEN MaxLoop(bd, moves, depth,
                 [alpha |-> RootAlpha, beta |-> RootBeta, best |-> INT_MIN, cut |-> FALSE],
                 1, Len(moves) - 1)
    ELSE MinLoop(bd, moves, depth,
                 [alpha |-> RootAlpha, beta |-> RootBeta, best |-> INT_MAX, cut |-> FALSE],
                 1, Len(moves) - 1)

LastChildBreaks(moves, child, w) ==
    LoopBreaks(child, depth - 1, w.alpha, w.beta, ~white_turn,
               generate_legal_moves(child, ~white_turn))

\* A search of depth 2 has returned in which the loop of the root's last
\* child was cut off by beta <= alpha.
C2_Witness ==
    /\ pc = "returned"
    /\ ret.fn = "minimax"
    /\ depth = 2
    /\ ret.val = FullMinimax(bd, depth, white_turn)
    /\ \E moves \in {generate_legal_moves(bd, white_turn)} :
          /\ Len(moves) >= 2
          /\ LastChildBreaks(moves, apply_move(bd, moves[Len(moves)]), LastWindow(moves))

\* What C3 says minimax returns at the node (board, d) with side s to move
\* and n legal moves, when it says it: the mate score against s, 0, or the
\* static evaluation.
TerminalScore(board, s) ==
    IF is_in_check(board, s) THEN (IF s THEN -1000000 ELSE 1000000) ELSE 0

TerminalRule(board, d, s, n, val) ==
    /\ n = 0 => val = TerminalScore(board, s)
    /\ (n > 0 /\ d = 0) => val = evaluate_board(board)

\* C3: a minimax node whose side to move has no legal move returns -1,000,000
\* (White in check), +1,000,000 (Black in check) or 0 (not in check), at
\* every depth, depth 0 included; the static evaluation is what a node of
\* depth 0 with a legal move returns.
C3_TerminalScoring ==
    (pc = "returned" /\ ret.fn = "minimax") =>
        TerminalRule(bd, depth, white_turn,
                     Len(generate_legal_moves(bd, white_turn)), ret.val)

\* minimax has returned the mate score at depth 0 for a mated side whose
\* position has another static evaluation.
C3_Witness ==
    /\ pc = "returned"
    /\ ret.fn = "minimax"
    /\ depth = 0
    /\ Len(generate_legal_moves(bd, white_turn)) = 0
    /\ is_in_check(bd, white_turn)
    /\ ret.val = (IF white_turn THEN -1000000 ELSE 1000000)
    /\ evaluate_board(bd) # ret.val

\* minimax has returned 0 at depth 2 for a stalemated side whose position has
\* a static evaluation other than 0.
C3_WitnessStalemate ==
    /\ pc = "returned"
    /\ ret.fn = "minimax"
    /\ depth = 2
    /\ Len(generate_legal_moves(bd, white_turn)) = 0
    /\ ~is_in_check(bd, white_turn)
    /\ ret.val = 0
    /\ evaluate_board(bd) # 0

\* The board after the first k moves of ms have been applied to board.
RECURSIVE BoardAfter(_, _, _)
BoardAfter(board, ms, k) ==
    IF k = 0 THEN board ELSE apply_move(BoardAfter(board, ms, k - 1), ms[k])

\* m has the origin and the destination of a move of the list.
InList(m, moves) ==
    \E i \in 1 .. Len(moves) :
       /\ moves[i].r1 = m.r1 /\ moves[i].f1 = m.f1
       /\ moves[i].r2 = m.r2 /\ moves[i].f2 = m.f2

\* 1.f3 e5 2.g4 Qh4
FoolsMate ==
    << Move(6, 5, 5, 5, NoPromotion), Move(1, 4, 3, 4, NoPromotion),
       Move(6, 6, 4, 6, NoPromotion), Move(0, 3, 4, 7, NoPromotion) >>

FoolsMatePlayed == start = init_board /\ played = FoolsMate

\* Each move of the line is legal for the side to move when it is played,
\* White moving first; the position reached has White to move, without a
\* legal move and in check; a loop that has ended there printed Black's win.
FoolsMateMates ==
    /\ \A k \in 1 .. 4 :
          InList(FoolsMate[k],
                 generate_legal_moves(BoardAfter(init_board, FoolsMate, k - 1), k % 2 = 1))
    /\ bd = BoardAfter(init_board, FoolsMate, 4)
    /\ white_turn
    /\ Len(generate_legal_moves(bd, TRUE)) = 0
    /\ is_in_check(bd, TRUE)
    /\ pc = "done" => outcome = "checkmate_black_wins"

\* C4: after f2-f3, e7-e5, g2-g4, d8-h4 from init_board, each a legal move
\* when played, White has no legal move and is in check, and the turn loop
\* ends the game as a checkmate won by Black.
C4_FoolsMate ==
    /\ [](FoolsMatePlayed => FoolsMateMates)
    /\ (FoolsMatePlayed ~> (pc = "done" /\ outcome = "checkmate_black_wins"))

\* The loop has ended after the four moves, with Black's win printed.
C4_Witness ==
    /\ FoolsMatePlayed
    /\ pc = "done"
    /\ outcome = "checkmate_black_wins"

\* The single and the double step of each of the 8 white pawns from rank 2.
StartPawnMoves ==
    {Move(6, f, 5, f, NoPromotion) : f \in Idx} \cup {Move(6, f, 4, f, NoPromotion) : f \in Idx}

\* b1-a3, b1-c3, g1-f3, g1-h3.
StartKnightMoves ==
    {Move(7, 1, 5, 0, NoPromotion), Move(7, 1, 5, 2, NoPromotion),
     Move(7, 6, 5, 5, NoPromotion), Move(7, 6, 5, 7, NoPromotion)}

\* The list has 20 entries, all different: the 16 pawn moves and the 4
\* knight moves.
TwentyMoves(moves) ==
    /\ Len(moves) = 20
    /\ Cardinality(StartPawnMoves) = 16
    /\ Cardinality(StartKnightMoves) = 4
    /\ Range(moves) = StartPawnMoves \cup StartKnightMoves
    /\ Cardinality(Range(moves)) = 20

\* C5: on the position of init_board with White to move, generate_legal_moves
\* returns exactly 20 moves: the single and the double step of each of the 8
\* pawns and the 4 knight moves, and nothing else.
C5_TwentyAtStart ==
    (start = init_board /\ played = <<>>) =>
        /\ bd = init_board
        /\ white_turn
        /\ TwentyMoves(generate_legal_moves(bd, white_turn))

\* One of the 20 moves, the double step g2-g4, has been played as the first
\* move from the initial position.
C5_Witness ==
    /\ start = init_board
    /\ played = <<Move(6, 6, 4, 6, NoPromotion)>>
    /\ played[1] \in StartPawnMoves
    /\ InList(played[1], generate_legal_moves(init_board, TRUE))
    /\ bd[4][6] = "P"
    /\ ~white_turn

\* The piece C6 names for a promotion: the queen of the mover's side when the
\* move carries no promotion piece, else the piece carried, in the mover's
\* colour.
PromotedPiece(white, pr) ==
    CASE pr = NoPromotion -> IF white THEN "Q" ELSE "q"
      [] pr = "Q" -> IF white THEN "Q" ELSE "q"
      [] pr = "R" -> IF white THEN "R" ELSE "r"
      [] pr = "B" -> IF white THEN "B" ELSE "b"
      [] pr = "N" -> IF white THEN "N" ELSE "n"

\* m moves a pawn of before onto the last rank for its side.
PawnToLastRank(before, m) ==
    \/ before[m.r1][m.f1] = "P" /\ m.r2 = 0
    \/ before[m.r1][m.f1] = "p" /\ m.r2 = 7

\* after is what C6 says of before with m applied.
PromotionRule(before, m, after) ==
    PawnToLastRank(before, m) =>
        /\ after[m.r2][m.f2] = PromotedPiece(before[m.r1][m.f1] = "P", m.promotion)
        /\ after[m.r1][m.f1] = Empty
        /\ after[m.r2][m.f2] \notin {"P", "p"}

\* The rule holds of every move of the list applied to board with every
\* promotion choice.
AllPromote(board, moves) ==
    \A i \in 1 .. Len(moves) : \A pr \in PromotionChoices :
        PromotionRule(board, WithPromotion(moves[i], pr),
                      apply_move(board, WithPromotion(moves[i], pr)))

\* C6: apply_move on a pawn move onto the last rank for its side puts on the
\* destination the mover's queen when no promotion piece is carried and the
\* piece carried among Q, R, B, N in the mover's colour otherwise, empties
\* the origin, and leaves no pawn on the destination. Stated of the move
\* last applied and of every pseudo-legal move of either side on the board
\* held.
C6_Promotion ==
    /\ played # <<>> =>
          PromotionRule(BoardAfter(start, played, Len(played) - 1),
                        played[Len(played)], bd)
    /\ \A s \in BOOLEAN : AllPromote(bd, PseudoScan(bd, s))

\* A black pawn has been moved onto rank 1 carrying N, and a black knight
\* stands there.
C6_Witness ==
    /\ Len(played) = 1
    /\ start[played[1].r1][played[1].f1] = "p"
    /\ played[1].r2 = 7
    /\ played[1].promotion = "N"
    /\ bd[played[1].r2][played[1].f2] = "n"
    /\ bd[played[1].r1][played[1].f1] = Empty

\* A white pawn has been moved onto rank 8 carrying no promotion piece, and a
\* white queen stands there.
C6_WitnessDefault ==
    /\ Len(played) = 1
    /\ start[played[1].r1][played[1].f1] = "P"
    /\ played[1].r2 = 0
    /\ played[1].promotion = NoPromotion
    /\ bd[played[1].r2][played[1].f2] = "Q"

\* The search score of each root move of moves, in order: minimax at depth
\* aiDepth - 1 on the position after the move, the opponent to move.
SearchScores(board, s, aiDepth, moves) ==
    <<>> \o [j \in 1 .. Len(moves) |->
                minimax(apply_move(board, moves[j]), aiDepth - 1, RootAlpha, RootBeta, ~s)]

\* The best of the scores for side s: the greatest for White, the least for
\* Black.
BestScore(s, scores) ==
    IF s THEN SetMax(Range(scores)) ELSE SetMin(Range(scores))

\* The sentinel: origin = destination = (0, 0).
IsSentinel(m) == m.r1 = 0 /\ m.f1 = 0 /\ m.r2 = 0 /\ m.f2 = 0

\* chosen is the first move of the list whose score is the best.
FirstBest(s, moves, scores, chosen) ==
    \E i \in 1 .. Len(moves) :
       /\ chosen = moves[i]
       /\ scores[i] = BestScore(s, scores)
       /\ \A j \in 1 .. (i - 1) : scores[j] # BestScore(s, scores)

\* What C7 says of the move chosen for side s among the legal moves.
ChoiceRule(board, s, aiDepth, moves, chosen) ==
    /\ \A i \in 1 .. Len(moves) : ~IsSentinel(moves[i])
    /\ IF Len(moves) = 0
       THEN IsSentinel(chosen)
       ELSE FirstBest(s, moves, SearchScores(board, s, aiDepth, moves), chosen)

\* C7: with a legal move to play, choose_ai_move returns the first move in
\* generation order of generate_legal_moves whose search score is the
\* greatest (White) or the least (Black) of the scores of all root moves;
\* with none it returns the sentinel, which equals no legal move.
C7_MoveSelection ==
    (pc = "returned" /\ ret.fn = "choose_ai_move") =>
        ChoiceRule(bd, white_turn, AI_DEPTH, generate_legal_moves(bd, white_turn), ret.val)

\* The move at index i of the list was chosen, a later move has the same
\* score and an earlier one a worse score.
TieBroken(moves, scores, chosen) ==
    \E i \in 2 .. Len(moves) :
       /\ chosen = moves[i]
       /\ \E j \in (i + 1) .. Len(moves) : scores[j] = scores[i]
       /\ scores[1] # scores[i]

\* choose_ai_move has returned, for a search of two plies, a move that is
\* neither the first nor the only one with the best score.
C7_Witness ==
    /\ pc = "returned"
    /\ ret.fn = "choose_ai_move"
    /\ AI_DEPTH = 2
    /\ TieBroken(generate_legal_moves(bd, white_turn),
                 SearchScores(bd, white_turn, AI_DEPTH, generate_legal_moves(bd, white_turn)),
                 ret.val)

\* choose_ai_move has returned the sentinel for a side without a legal move
\* whose king stands on a8, the cell (0, 0).
C7_WitnessSentinel ==
    /\ pc = "returned"
    /\ ret.fn = "choose_ai_move"
    /\ Len(generate_legal_moves(bd, white_turn)) = 0
    /\ IsSentinel(ret.val)
    /\ bd[0][0] = "k"
    /\ ~white_turn

\* The calls of minimax in progress, as indices of stack.
MinimaxFrames == {k \in 1 .. Len(stack) : stack[k].fn = "minimax"}

\* The recursive calls nested in the call of frame k.
NestedIn(k) == {j \in MinimaxFrames : j > k}

\* The board of the outermost call is the root position, and the board of
\* every other call is its caller's board one move later: path holds the
\* moves from the root position to the board of frame k.
PathLeadsTo(k) ==
    IF k = 1
    THEN stack[1].path = <<>> /\ stack[1].bd = bd
    ELSE /\ Len(stack[k].path) = Len(stack[k - 1].path) + 1
         /\ SubSeq(stack[k].path, 1, Len(stack[k].path) - 1) = stack[k - 1].path
         /\ stack[k].bd = apply_move(stack[k - 1].bd, stack[k].path[Len(stack[k].path)])

\* Every call of minimax in progress has depth >= 0 and no more calls
\* nested in it than its depth; the board of every call is the root position
\* after the moves of its path, which are no more than the depth the
\* outermost call was given (depth for minimax, AI_DEPTH for
\* choose_ai_move).
CallChainBounded ==
    pc = "search" =>
       /\ \A k \in MinimaxFrames :
             /\ stack[k].depth >= 0
             /\ Cardinality(NestedIn(k)) <= stack[k].depth
       /\ \A k \in 1 .. Len(stack) :
             /\ Len(stack[k].path) <= stack[1].depth
             /\ PathLeadsTo(k)
       /\ stack[1].depth = (IF stack[1].fn = "choose_ai_move" THEN AI_DEPTH ELSE depth)

\* C8: minimax called with depth >= 0, and choose_ai_move with AI_DEPTH >= 1,
\* return: a search in progress always comes to its return; meanwhile the
\* calls of minimax nested in a call are never more than that call's depth,
\* and no position looked at is more than depth plies (AI_DEPTH plies for
\* choose_ai_move) from the root position.
C8_Termination ==
    /\ []CallChainBounded
    /\ (pc = "search") ~> (pc = "returned")

\* choose_ai_move with AI_DEPTH = 3 has its call of minimax at depth 2 and
\* two calls nested in it, the innermost at depth 0 on a position three
\* plies from the root.
C8_Witness ==
    /\ pc = "search"
    /\ AI_DEPTH = 3
    /\ stack[1].fn = "choose_ai_move"
    /\ Len(stack) = 4
    /\ Cardinality(NestedIn(2)) = stack[2].depth
    /\ Top.depth = 0
    /\ Len(Top.path) = 3

\* choose_ai_move with AI_DEPTH = 3 has returned a move.
C8_WitnessReturned ==
    /\ pc = "returned"
    /\ AI_DEPTH = 3
    /\ ret.fn = "choose_ai_move"
    /\ ret.val # NoMove

\* The number of cells of board that hold piece p.
Count(board, p) ==
    Cardinality({c \in 0 .. 63 : board[c \div BOARD_SIZE][c % BOARD_SIZE] = p})

OneKingEach(board) == Count(board, "K") = 1 /\ Count(board, "k") = 1

\* No move of the list captures a king of board.
NoKingCaptured(board, moves) ==
    \A i \in 1 .. Len(moves) : board[moves[i].r2][moves[i].f2] \notin {"K", "k"}

\* The king search of the filter finds the king of side s on the scratch
\* board of every pseudo-legal move of s, and the one of is_in_check finds
\* it on board.
GuardsIdle(board, s) ==
    /\ FindKing(board, IF s THEN "K" ELSE "k") # <<-1, -1>>
    /\ \A i \in 1 .. Len(PseudoScan(board, s)) :
          FindKing(FilterApply(board, PseudoScan(board, s)[i]), IF s THEN "K" ELSE "k")
              # <<-1, -1>>

\* C9: in every position reached from init_board by legal moves of the two
\* sides in turn, the board holds exactly one 'K' and exactly one 'k', no
\* legal move of the side to move captures a king, and the king searches of
\* generate_legal_moves and is_in_check find the king they look for.
C9_KingInvariant ==
    start = init_board =>
        /\ OneKingEach(bd)
        /\ NoKingCaptured(bd, generate_legal_moves(bd, white_turn))
        /\ GuardsIdle(bd, white_turn)
        /\ GuardsIdle(bd, ~white_turn)

\* Six legal moves have been played from init_board, the white king has left
\* e1, a piece has been captured and White is in check.
C9_Witness ==
    /\ start = init_board
    /\ Len(played) = 6
    /\ bd[7][4] # "K"
    /\ Cardinality({c \in 0 .. 63 : bd[c \div BOARD_SIZE][c % BOARD_SIZE] # Empty}) < 32
    /\ is_in_check(bd, TRUE)
    /\ OneKingEach(bd)

\* The line parses to a move whose origin and destination are those of a
\* move of the list.
NamesLegal(line, legalMoves) ==
    /\ parse_move_input(line).ok
    /\ InList(parse_move_input(line).m, legalMoves)

\* The step appends to played a move with the origin and destination of a
\* move of the list, and the new board is the old one with that move applied.
AppliesLegal(legalMoves) ==
    /\ Len(played') = Len(played) + 1
    /\ InList(played'[Len(played')], legalMoves)
    /\ bd' = apply_move(bd, played'[Len(played')])

\* A step that changes the board, the side to move or the moves applied is
\* one that flips the side to move and applies a move of the legal list; on
\* White's turn, when the loop goes on, the line it read names that legal
\* move. Put the other way round: a pass on a line that names no legal move
\* changes neither the board nor the side to move.
ChangeIsLegalMove ==
    \/ bd' = bd /\ white_turn' = white_turn /\ played' = played
    \/ \E legalMoves \in {generate_legal_moves(bd, white_turn)} :
          /\ (white_turn /\ pc = "loop" /\ pc' = "loop") => NamesLegal(request', legalMoves)
          /\ white_turn' # white_turn
          /\ AppliesLegal(legalMoves)

\* White is to move after an even number of applied moves and Black after
\* an odd number, before and after every step.
RejectsAndAlternates ==
    /\ ChangeIsLegalMove
    /\ white_turn = (Len(played) % 2 = 0)
    /\ white_turn' = (Len(played') % 2 = 0)

\* C10: in the turn loop a request that matches no move of
\* generate_legal_moves for the side to move leaves the board and the side
\* to move unchanged; the side to move flips only in a step that applies a
\* move of the legal list, so the turns alternate White, Black, White, ...
C10_RejectIllegal == [][RejectsAndAlternates]_vars

\* After White's and Black's first moves the request e2e5, which parses and
\* names no legal move, was read and White is still to move on the same
\* board.
C10_Witness ==
    /\ Len(played) = 2
    /\ white_turn
    /\ pc = "loop"
    /\ request = <<"e", "2", "e", "5">>
    /\ parse_move_input(request).ok
    /\ ~NamesLegal(request, generate_legal_moves(bd, white_turn))
    /\ bd = BoardAfter(init_board, played, 2)


\* The position the search was called on is as it was, cell for cell.
RootUntouched == \A r \in Idx, f \in Idx : bd[r][f] = start[r][f]

\* The board the call of frame k was given is as it was when the call was
\* entered, and generate_legal_moves on it gives again the moves the call
\* got at its entry.
FrameKept(k) ==
    /\ Pointee(stack, bd, k) = stack[k].bd
    /\ generate_legal_moves(Pointee(stack, bd, k), stack[k].side) = stack[k].moves

\* The tmp of a call that has a call of minimax in progress is the board
\* the call was given with moves[i] applied and nothing else: no move of an
\* earlier pass is on it.
FreshCopy(k) ==
    /\ stack[k].tmp = apply_move(stack[k].bd, stack[k].moves[stack[k].i + 1])
    /\ stack[k].tmp # stack[k].bd
    /\ stack[k + 1].bd = stack[k].tmp

C11_WitnessReturned ==
    /\ pc = "returned"
    /\ ret.fn = "choose_ai_move"
    /\ ret.val # NoMove
    /\ AI_DEPTH = 3
    /\ RootUntouched

====
